---- MODULE Spec2Model ----
(***************************************************************************)
(* The request pipeline of the bear crate: the transaction middleware      *)
(* (txnmw.rs) wrapping the authentication middleware (authmw.rs) wrapping  *)
(* an actix handler whose arguments are the transaction accessors          *)
(* WriteTxn / ReadTxn (Switcharoo) and the principal extractor.            *)
(*                                                                         *)
(* A request is a process; pc[r] is the position of its future.  Steps are *)
(* split at the .await points and at the service.call boundaries of the    *)
(* source.  Transactions are identified by their index in txns.            *)
(***************************************************************************)
EXTENDS Integers, Sequences, FiniteSets, TLC

\* ---------------------------------------------------------------- bounds
MaxAcc == 2          \* transaction accessors a handler takes as arguments
MaxGets == 2         \* get() calls a handler makes on its accessors
MaxAdvance == 2      \* ticks the clock advances past its start

\* ------------------------------------------------------ program constants
ClockStart == 1000   \* MockClock::new
ClientErrorLo == 400 \* StatusCode::is_client_error: 400 <= code < 500
ServerErrorLo == 500 \* StatusCode::is_server_error: 500 <= code < 600
ServerErrorHi == 600

\* the requests: Spec serves one with every handler, SpecSessions serves
\* both, concurrently, with a handler that takes a principal and no transaction
Reqs == {1, 2}
Served == {1}
Accs == 1..MaxAcc
None == 0            \* Option::None of a transaction handle (handles are 1, 2, ...)

\* http::StatusCode values a handler answers with (status codes are 100..999)
Statuses == {200, 399, 400, 500, 599, 600}

\* SESSION_KIND_OIDC and one other authentication kind
SESSION_KIND_OIDC == "Oidc"
Kinds == {SESSION_KIND_OIDC, "ApiKey"}

\* the credential read_authentication yields: none, the stored session's
\* code, or a code no session has
NoCred == "none"
SessionCode == "abc"
Creds == {NoCred, SessionCode, "zzz"}

VARIABLES
    now,        \* Clock::utcnow
    session,    \* the committed row of the session table
    txns,       \* every transaction begun: [req, origin, pool, st]
    TXN_LOG,    \* txnmw::TXN_LOG, each entry tagged with the request that pushed it
    pc,         \* position of each request's future
    required,   \* AuthMiddleware.required of the route the request hits
    cred,       \* AC::read_authentication(&req)
    cont,       \* the TxnRcContainer of the request (Cell<Option<DbTxn>>)
    acc,        \* the Switcharoo values of the handler's arguments
    principal,  \* Rc<PrincipalInner> in the request extensions
    taken,      \* PrincipalTaken in the request extensions
    authtxn,    \* verify_auth's local txn
    found,      \* verify_auth's local sess
    pend,       \* uncommitted write of the auth transaction
    verified,   \* result of verify_auth
    ext,        \* outcome of the last principal_from_request
    hres,       \* result of service.call in AuthMiddleware
    res,        \* result of service.call in TxnMiddleware
    mwtxn,      \* TxnMiddleware's local txn after cont.take()
    fin,        \* which of commit / rollback TxnMiddleware awaits
    out,        \* what TxnMiddleware returned to its caller
    login       \* oidc_callback's request: cookie, identity provider's answers, clock read

vars == <<now, session, txns, TXN_LOG, pc, required, cred, cont, acc, principal,
          taken, authtxn, found, pend, verified, ext, hres, res, mwtxn, fin, out, login>>

\* ---------------------------------------------------------------- values
NoRes == [kind |-> "none", status |-> 0, err |-> ""]
Resp(s) == [kind |-> "resp", status |-> s, err |-> ""]
Err(e) == [kind |-> "err", status |-> 0, err |-> e]

\* the errors of the pipeline
ERR_NOT_AUTHENTICATED == "AuthError1(request.not.authenticated)"
ERR_PRINCIPAL_MISSING == "AuthError1(principal.missing)"
ERR_KIND_MISMATCH == "AuthError1(principal.kind.mismatch)"
ERR_EXPIRED == "Expired"
ERR_AUTH == "AuthError"
ERR_NOT_CONSUMED == "anyhow(Principal not extracted in a handler under authenticated scope)"
ERR_SQL == "anyhow(sqlx)"
ERR_FINALIZE == "anyhow(SQL error on rollback/commit)"
ERR_DOWNSTREAM == "downstream"
ERR_NOT_DECODED == "Any(oidc_callback.not_decoded)"
ERR_OIDC == "anyhow(oidc)"

NoPrincipal == [auth_kind |-> "", principal |-> ""]
NoSession == [present |-> FALSE, kind |-> "", expires |-> 0, email |-> ""]
NoAcc == [st |-> "absent", flavor |-> "-", local |-> None, reg |-> None, gets |-> 0]
NoVerified == [kind |-> "pending", p |-> NoPrincipal, err |-> ""]
NoLogin == [route |-> FALSE, nonce |-> "", token |-> FALSE, decoded |-> FALSE,
            verified |-> FALSE, email |-> "", at |-> 0]
NoExt == [outcome |-> "none", kind |-> "", err |-> "", p |-> NoPrincipal]

\* ------------------------------------------------------------- TXN_LOG
\* log_txn_state
log_txn_state(log, r, state) == Append(log, [req |-> r, st |-> state])

RECURSIVE ReqLogOf(_, _)
ReqLogOf(log, r) ==
    IF log = <<>> THEN <<>>
    ELSE IF Head(log).req = r THEN <<Head(log).st>> \o ReqLogOf(Tail(log), r)
         ELSE ReqLogOf(Tail(log), r)

\* the TxnState sequence recorded for request r
ReqLog(r) == ReqLogOf(TXN_LOG, r)

\* ------------------------------------------------------------ database
\* the writer pool has max_connections(1): a write transaction can begin
\* only while no other write transaction is open
WriterFreeAlways == TRUE

WriterFree == \A t \in 1..Len(txns) : ~(txns[t].pool = "w" /\ txns[t].st = "open")

\* DbMain::newtx_write / newtx_read succeeded: the new handle's record
NoWrite == [op |-> "none"]

NewTxn(r, origin, pool) ==
    [req |-> r, origin |-> origin, pool |-> pool, st |-> "open", w |-> NoWrite]

\* a Transaction value is dropped without commit or rollback
DropTxn(tx, t) == IF t = None THEN tx ELSE [tx EXCEPT ![t].st = "dropped"]

\* Session::lifetime
lifetime(kind) == IF kind = SESSION_KIND_OIDC THEN 2 ELSE 3

\* Session::as_principal
as_principal(s) == [auth_kind |-> s.kind, principal |-> s.email]

\* ------------------------------------------------------------- responses
is_client_error(s) == ClientErrorLo <= s /\ s < ServerErrorLo
is_server_error(s) == ServerErrorLo <= s /\ s < ServerErrorHi

\* ResponseError for AnyHandlerError: the status an error is answered with
error_response(e) ==
    IF e \in {ERR_AUTH, ERR_EXPIRED, ERR_NOT_AUTHENTICATED, ERR_PRINCIPAL_MISSING, ERR_KIND_MISMATCH}
    THEN 401
    ELSE IF e = ERR_NOT_DECODED THEN 400
    ELSE 500


\* --------------------------------------------------------- initial state
TypeOK ==
    /\ now \in ClockStart..(ClockStart + MaxAdvance)
    /\ pc \in [Reqs -> {"idle", "auth", "auth_begin", "auth_find", "auth_use", "auth_expired",
                        "auth_commit", "auth_attach", "extract", "body", "auth_post",
                        "login_insert", "txn_post", "txn_fin", "done", "panicked"}]
    /\ required \in [Reqs -> BOOLEAN]
    /\ cred \in [Reqs -> Creds]
    /\ cont \in [Reqs -> 0..Len(txns)]
    /\ taken \in [Reqs -> {"absent", "false", "true"}]
    /\ fin \in [Reqs -> {"none", "commit", "rollback"}]
    /\ \A t \in 1..Len(txns) : txns[t].st \in {"open", "committed", "rolledback", "dropped", "failed"}

\* no request has arrived
InitRequests ==
    /\ txns = <<>>
    /\ TXN_LOG = <<>>
    /\ pc = [r \in Reqs |-> "idle"]
    /\ required = [r \in Reqs |-> FALSE]
    /\ cred = [r \in Reqs |-> NoCred]
    /\ cont = [r \in Reqs |-> None]
    /\ acc = [r \in Reqs |-> [a \in Accs |-> NoAcc]]
    /\ principal = [r \in Reqs |-> NoPrincipal]
    /\ taken = [r \in Reqs |-> "absent"]
    /\ authtxn = [r \in Reqs |-> None]
    /\ found = [r \in Reqs |-> NoSession]
    /\ pend = [r \in Reqs |-> [op |-> "none", expires |-> 0]]
    /\ verified = [r \in Reqs |-> NoVerified]
    /\ ext = [r \in Reqs |-> NoExt]
    /\ hres = [r \in Reqs |-> NoRes]
    /\ res = [r \in Reqs |-> NoRes]
    /\ mwtxn = [r \in Reqs |-> None]
    /\ fin = [r \in Reqs |-> "none"]
    /\ out = [r \in Reqs |-> NoRes]
    /\ login = [r \in Reqs |-> NoLogin]

Init ==
    /\ now = ClockStart
    /\ session \in {[present |-> TRUE, kind |-> k, expires |-> ClockStart + 1, email |-> "a@x.com"] :
                        k \in Kinds}
    /\ InitRequests

\* before anybody has logged in: the session table is empty
InitLogin ==
    /\ now = ClockStart
    /\ session = NoSession
    /\ InitRequests

\* ------------------------------------------------------------------ clock
\* Clock::advance(1) / the wall clock moving on.  The clock is read at
\* authmw.rs line 112 only, so it moves while a request is still to read it
Tick ==
    /\ now < ClockStart + MaxAdvance
    /\ \E r \in Reqs : pc[r] \in {"auth_begin", "auth_find", "auth_use"}
    /\ now' = now + 1
    /\ UNCHANGED <<session, txns, TXN_LOG, pc, required, cred, cont, acc, principal, taken,
                   authtxn, found, pend, verified, ext, hres, res, mwtxn, fin, out, login>>

\* ------------------------------------------- TxnMiddleware::call, entry
\* a TxnMiddleware that begins the transaction itself before calling the service
TxnCallEager(r, rq, c) ==
    /\ pc[r] = "idle"
    /\ required' = [required EXCEPT ![r] = rq]
    /\ cred' = [cred EXCEPT ![r] = c]
    /\ txns' = Append(txns, NewTxn(r, "acc", "r"))
    /\ cont' = [cont EXCEPT ![r] = Len(txns) + 1]
    /\ TXN_LOG' = log_txn_state(log_txn_state(TXN_LOG, r, "Nonexistent"), r, "Started")
    /\ pc' = [pc EXCEPT ![r] = "auth"]
    /\ UNCHANGED <<now, session, acc, principal, taken, authtxn, found, pend,
                   verified, ext, hres, res, mwtxn, fin, out, login>>

\* lines 80-90: install the empty container, log Nonexistent, call the service
TxnCall(r, rq, c) ==
    /\ pc[r] = "idle"
    /\ required' = [required EXCEPT ![r] = rq]
    /\ cred' = [cred EXCEPT ![r] = c]
    /\ cont' = [cont EXCEPT ![r] = None]
    /\ TXN_LOG' = log_txn_state(TXN_LOG, r, "Nonexistent")
    /\ pc' = [pc EXCEPT ![r] = "auth"]
    /\ UNCHANGED <<now, session, txns, acc, principal, taken, authtxn, found, pend,
                   verified, ext, hres, res, mwtxn, fin, out, login>>

\* ------------------------------------------ AuthMiddleware::call, entry
\* verify_auth returned Err(e): its txn (if begun) is dropped uncommitted
AuthFail(r, e) ==
    /\ verified' = [verified EXCEPT ![r] = [kind |-> "err", p |-> NoPrincipal, err |-> e]]
    /\ txns' = DropTxn(txns, authtxn[r])
    /\ authtxn' = [authtxn EXCEPT ![r] = None]
    /\ pend' = [pend EXCEPT ![r] = [op |-> "none", expires |-> 0]]
    /\ pc' = [pc EXCEPT ![r] = "auth_attach"]

\* lines 125-130 and 108, 116-118: no credential gives Ok(None) at once
AuthCall(r) ==
    /\ pc[r] = "auth"
    /\ IF cred[r] = NoCred
       THEN /\ verified' = [verified EXCEPT ![r] = [kind |-> "none", p |-> NoPrincipal, err |-> ""]]
            /\ pc' = [pc EXCEPT ![r] = "auth_attach"]
       ELSE /\ pc' = [pc EXCEPT ![r] = "auth_begin"]
            /\ UNCHANGED verified
    /\ UNCHANGED <<now, session, txns, TXN_LOG, required, cred, cont, acc, principal, taken,
                   authtxn, found, pend, ext, hres, res, mwtxn, fin, out, login>>

\* line 110 asking db.newtx_read(): a readers-pool transaction, no waiting
AuthBeginOnReaders(r, ok) ==
    /\ pc[r] = "auth_begin"
    /\ IF ok
       THEN /\ txns' = Append(txns, NewTxn(r, "auth", "r"))
            /\ authtxn' = [authtxn EXCEPT ![r] = Len(txns) + 1]
            /\ pc' = [pc EXCEPT ![r] = "auth_find"]
            /\ UNCHANGED <<verified, pend>>
       ELSE AuthFail(r, ERR_SQL)
    /\ UNCHANGED <<now, session, TXN_LOG, required, cred, cont, acc, principal, taken,
                   found, ext, hres, res, mwtxn, fin, out, login>>

\* line 110: db.newtx_write().await?
AuthBegin(r, ok) ==
    /\ pc[r] = "auth_begin"
    /\ IF ok
       THEN /\ WriterFree
            /\ txns' = Append(txns, NewTxn(r, "auth", "w"))
            /\ authtxn' = [authtxn EXCEPT ![r] = Len(txns) + 1]
            /\ pc' = [pc EXCEPT ![r] = "auth_find"]
            /\ UNCHANGED <<verified, pend>>
       ELSE AuthFail(r, ERR_SQL)
    /\ UNCHANGED <<now, session, TXN_LOG, required, cred, cont, acc, principal, taken,
                   found, ext, hres, res, mwtxn, fin, out, login>>

\* Session::find_session: the row whose code the credential names
find_session(s, c) == IF s.present /\ c = SessionCode THEN s ELSE NoSession

\* line 111: AC::S::find_session(&mut txn, ..).await?
AuthFind(r) ==
    /\ pc[r] = "auth_find"
    /\ LET s == find_session(session, cred[r]) IN
       IF s.present
       THEN /\ found' = [found EXCEPT ![r] = s]
            /\ pc' = [pc EXCEPT ![r] = "auth_use"]
            /\ UNCHANGED <<verified, txns, authtxn, pend>>
       ELSE /\ AuthFail(r, ERR_AUTH)
            /\ UNCHANGED found
    /\ UNCHANGED <<now, session, TXN_LOG, required, cred, cont, acc, principal, taken,
                   ext, hres, res, mwtxn, fin, out, login>>

\* use_session's test, line 97
session_expired(expires, t) == expires < t

\* line 101 counting from the clock's start instead of the clock read
extended_expiry_from_start(t, kind) == ClockStart + lifetime(kind)

\* line 101 extending by nothing
extended_expiry_unmoved(t, kind) == t

\* line 101: the expiry use_session writes for a session read at clock t
extended_expiry(t, kind) == t + lifetime(kind)

\* lines 96-104 and 112: use_session(&mut txn, &sess, objs.utcnow())
AuthUse(r) ==
    /\ pc[r] = "auth_use"
    /\ IF session_expired(found[r].expires, now)
       THEN /\ pend' = [pend EXCEPT ![r] = [op |-> "delete", expires |-> 0]]
            /\ pc' = [pc EXCEPT ![r] = "auth_expired"]
       ELSE /\ pend' = [pend EXCEPT ![r] =
                          [op |-> "extend", expires |-> extended_expiry(now, found[r].kind)]]
            /\ pc' = [pc EXCEPT ![r] = "auth_commit"]
    /\ UNCHANGED <<now, session, txns, TXN_LOG, required, cred, cont, acc, principal, taken,
                   authtxn, found, verified, ext, hres, res, mwtxn, fin, out, login>>

\* lines 99 and 112: Err(Expired) leaves verify_auth through `?`
AuthExpired(r) ==
    /\ pc[r] = "auth_expired"
    /\ AuthFail(r, ERR_EXPIRED)
    /\ UNCHANGED <<now, session, TXN_LOG, required, cred, cont, acc, principal, taken,
                   found, ext, hres, res, mwtxn, fin, out, login>>

\* the session table after a transaction with pending write w commits
apply_write(s, w) ==
    IF w.op = "delete" THEN NoSession
    ELSE IF w.op = "insert" THEN w.row
    ELSE IF w.op = "extend" /\ s.present THEN [s EXCEPT !.expires = w.expires]
    ELSE s

\* verify_auth without line 113, its transaction kept alive past its return
AuthCommitKeepsOpen(r, ok) ==
    /\ pc[r] = "auth_commit"
    /\ IF ok
       THEN /\ verified' = [verified EXCEPT ![r] =
                              [kind |-> "some", p |-> as_principal(found[r]), err |-> ""]]
            /\ pc' = [pc EXCEPT ![r] = "auth_attach"]
            /\ UNCHANGED <<session, txns, authtxn, pend>>
       ELSE /\ verified' = [verified EXCEPT ![r] = [kind |-> "err", p |-> NoPrincipal, err |-> ERR_SQL]]
            /\ txns' = [txns EXCEPT ![authtxn[r]].st = "failed"]
            /\ authtxn' = [authtxn EXCEPT ![r] = None]
            /\ pend' = [pend EXCEPT ![r] = [op |-> "none", expires |-> 0]]
            /\ pc' = [pc EXCEPT ![r] = "auth_attach"]
            /\ UNCHANGED session
    /\ UNCHANGED <<now, TXN_LOG, required, cred, cont, acc, principal, taken,
                   found, ext, hres, res, mwtxn, fin, out, login>>

\* lines 113-114: txn.commit().await?, then the principal of the session
AuthCommit(r, ok) ==
    /\ pc[r] = "auth_commit"
    /\ IF ok
       THEN /\ session' = apply_write(session, pend[r])
            /\ txns' = [txns EXCEPT ![authtxn[r]].st = "committed"]
            /\ authtxn' = [authtxn EXCEPT ![r] = None]
            /\ pend' = [pend EXCEPT ![r] = [op |-> "none", expires |-> 0]]
            /\ verified' = [verified EXCEPT ![r] =
                              [kind |-> "some", p |-> as_principal(found[r]), err |-> ""]]
            /\ pc' = [pc EXCEPT ![r] = "auth_attach"]
       ELSE /\ verified' = [verified EXCEPT ![r] = [kind |-> "err", p |-> NoPrincipal, err |-> ERR_SQL]]
            /\ txns' = [txns EXCEPT ![authtxn[r]].st = "failed"]
            /\ authtxn' = [authtxn EXCEPT ![r] = None]
            /\ pend' = [pend EXCEPT ![r] = [op |-> "none", expires |-> 0]]
            /\ pc' = [pc EXCEPT ![r] = "auth_attach"]
            /\ UNCHANGED session
    /\ UNCHANGED <<now, TXN_LOG, required, cred, cont, acc, principal, taken,
                   found, ext, hres, res, mwtxn, fin, out, login>>

\* lines 130-141 without the `else if required` branch
attach_outcome_ignores_required(v, rq) ==
    IF v.kind = "err" THEN "fail"
    ELSE IF v.kind = "some" THEN "attach"
    ELSE "pass"

\* lines 130-141: what AuthMiddleware does with the verify_auth result v on a
\* route whose `required` is rq
attach_outcome(v, rq) ==
    IF v.kind = "err" THEN "fail"
    ELSE IF v.kind = "some" THEN "attach"
    ELSE IF rq THEN "reject"
    ELSE "pass"

\* lines 130-142: `?` on the verify_auth result, attach the principal or
\* short-circuit, else call the downstream service; verify_auth's locals are gone
AuthAttach(r) ==
    /\ pc[r] = "auth_attach"
    /\ LET o == attach_outcome(verified[r], required[r]) IN
        /\ res' = [res EXCEPT ![r] =
                     IF o = "fail" THEN Err(verified[r].err)
                     ELSE IF o = "reject" THEN Err(ERR_NOT_AUTHENTICATED)
                     ELSE @]
        /\ principal' = [principal EXCEPT ![r] = IF o = "attach" THEN verified[r].p ELSE @]
        /\ taken' = [taken EXCEPT ![r] = IF o = "attach" THEN "false" ELSE @]
        /\ pc' = [pc EXCEPT ![r] = IF o \in {"fail", "reject"} THEN "txn_post" ELSE "extract"]
    /\ found' = [found EXCEPT ![r] = NoSession]
    /\ verified' = [verified EXCEPT ![r] = NoVerified]
    /\ UNCHANGED <<now, session, txns, TXN_LOG, required, cred, cont, acc,
                   authtxn, pend, ext, hres, mwtxn, fin, out, login>>

\* ---------------------------------------------- Switcharoo (the accessor)
\* The operations act on h = [acc, cont, txns]: the accessors of one request,
\* its container, and the transactions.

\* Switcharoo::put, lines 195-198: shared.set(Some(txn)) drops what the cell held
put(h, a, t) ==
    [h EXCEPT !.cont = t,
              !.txns = DropTxn(h.txns, h.cont),
              !.acc[a].st = "live",
              !.acc[a].reg = t]

\* Switcharoo::get, line 180: shared.replace(None).unwrap() panics on an empty cell
get_panics(h, a) == h.acc[a].local = None /\ h.cont = None

\* a get that copies the handle out of the cell and leaves it there
get_keeps_cell(h, a) ==
    LET moved == IF h.acc[a].local = None
                 THEN [h EXCEPT !.acc[a].local = h.cont]
                 ELSE h
    IN [moved EXCEPT !.acc[a].gets = @ + 1]

\* a get without the local.is_none() test: it goes to the cell every time
get_ignores_cache(h, a) ==
    [h EXCEPT !.acc[a].local = h.cont, !.cont = None, !.acc[a].gets = @ + 1]

\* Switcharoo::get, lines 178-190
get(h, a) ==
    LET moved == IF h.acc[a].local = None
                 THEN [h EXCEPT !.acc[a].local = h.cont, !.cont = None]
                 ELSE h
    IN [moved EXCEPT !.acc[a].gets = @ + 1]

\* a Drop that commits the handle it holds instead of handing it back
drop_commits(h, a) ==
    IF h.acc[a].local # None
    THEN [h EXCEPT !.txns[h.acc[a].local].st = "committed",
                   !.acc[a].local = None,
                   !.acc[a].st = "dropped"]
    ELSE [h EXCEPT !.acc[a].st = "dropped"]

\* Drop for Switcharoo, lines 202-209
drop(h, a) ==
    IF h.acc[a].local # None
    THEN [h EXCEPT !.cont = h.acc[a].local,
                   !.txns = DropTxn(h.txns, h.cont),
                   !.acc[a].local = None,
                   !.acc[a].st = "dropped"]
    ELSE [h EXCEPT !.acc[a].st = "dropped"]

\* the handler's arguments go out of scope, last declared first
RECURSIVE drop_from(_, _)
drop_from(h, k) ==
    IF k = 0 THEN h
    ELSE IF h.acc[k].st \in {"live", "pending"} THEN drop_from(drop(h, k), k - 1)
    ELSE drop_from(h, k - 1)

drop_all(h) == drop_from(h, MaxAcc)

\* one container for the whole application instead of one per request
HeapOfSharedContainer(r) == [acc |-> acc[r], cont |-> cont[1], txns |-> txns]

Heap(r) == [acc |-> acc[r], cont |-> cont[r], txns |-> txns]

SetHeap(r, h) ==
    /\ acc' = [acc EXCEPT ![r] = h.acc]
    /\ cont' = [cont EXCEPT ![r] = h.cont]
    /\ txns' = h.txns

\* ------------------------------------------------- the handler service
\* argument extraction failed with error e: the extracted arguments are
\* dropped and the error is answered as a response
ExtractFailed(r, e) ==
    /\ SetHeap(r, drop_all(Heap(r)))
    /\ hres' = [hres EXCEPT ![r] = Resp(error_response(e))]
    /\ pc' = [pc EXCEPT ![r] = "auth_post"]

\* Switcharoo::from_request (lines 147-161) called by WriteTxn / ReadTxn
\* ::from_request (lines 225-231, 256-262): the accessor exists, its
\* transaction is not begun yet
NewAccessor(r, fl) ==
    /\ pc[r] = "extract"
    /\ \E a \in Accs :
        /\ acc[r][a].st = "absent"
        /\ \A b \in Accs : b < a => acc[r][b].st # "absent"
        /\ acc' = [acc EXCEPT ![r][a] = [NoAcc EXCEPT !.st = "pending", !.flavor = fl]]
    /\ UNCHANGED <<now, session, txns, TXN_LOG, pc, required, cred, cont, principal, taken,
                   authtxn, found, pend, verified, ext, hres, res, mwtxn, fin, out, login>>

\* both accessor flavors asking db.newtx_write() (line 263 as line 232)
AccBeginAlwaysWriter(r, a, ok) ==
    /\ pc[r] = "extract"
    /\ acc[r][a].st = "pending"
    /\ IF ok
       THEN /\ WriterFree
            /\ LET t == Len(txns) + 1
                   h == [Heap(r) EXCEPT !.txns = Append(txns, NewTxn(r, "acc", "w"))]
               IN SetHeap(r, put(h, a, t))
            /\ TXN_LOG' = log_txn_state(TXN_LOG, r, "Started")
            /\ UNCHANGED <<pc, hres>>
       ELSE /\ SetHeap(r, drop_all([Heap(r) EXCEPT !.acc[a].st = "failed"]))
            /\ hres' = [hres EXCEPT ![r] = Resp(error_response(ERR_SQL))]
            /\ pc' = [pc EXCEPT ![r] = "auth_post"]
            /\ UNCHANGED TXN_LOG
    /\ UNCHANGED <<now, session, required, cred, principal, taken,
                   authtxn, found, pend, verified, ext, res, mwtxn, fin, out, login>>

\* lines 232-233, 263-264: db.newtx_write() / newtx_read(), then put (192-199);
\* put returns the begin error at line 193 (accessor state "failed"), before
\* it logs Started and before it sets the cell
AccBegin(r, a, ok) ==
    /\ pc[r] = "extract"
    /\ acc[r][a].st = "pending"
    /\ IF ok
       THEN /\ acc[r][a].flavor = "w" => WriterFree
            /\ LET t == Len(txns) + 1
                   h == [Heap(r) EXCEPT !.txns = Append(txns, NewTxn(r, "acc", acc[r][a].flavor))]
               IN SetHeap(r, put(h, a, t))
            /\ TXN_LOG' = log_txn_state(TXN_LOG, r, "Started")
            /\ UNCHANGED <<pc, hres>>
       ELSE /\ SetHeap(r, drop_all([Heap(r) EXCEPT !.acc[a].st = "failed"]))
            /\ hres' = [hres EXCEPT ![r] = Resp(error_response(ERR_SQL))]
            /\ pc' = [pc EXCEPT ![r] = "auth_post"]
            /\ UNCHANGED TXN_LOG
    /\ UNCHANGED <<now, session, required, cred, principal, taken,
                   authtxn, found, pend, verified, ext, res, mwtxn, fin, out, login>>

\* principal_from_request with lines 173-176 moved before the kind test of
\* line 167: the flag is set as soon as a principal is found
principal_from_request_marks_first(p, tk, k) ==
    IF p = NoPrincipal
    THEN [outcome |-> "missing", err |-> ERR_PRINCIPAL_MISSING, p |-> NoPrincipal, taken |-> tk]
    ELSE IF p.auth_kind # k
    THEN [outcome |-> "mismatch", err |-> ERR_KIND_MISMATCH, p |-> NoPrincipal,
          taken |-> IF tk = "absent" THEN tk ELSE "true"]
    ELSE [outcome |-> "ok", err |-> "", p |-> p,
          taken |-> IF tk = "absent" THEN tk ELSE "true"]

\* principal_from_request without lines 172-175: the flag is never set
principal_from_request_never_marks(p, tk, k) ==
    IF p = NoPrincipal
    THEN [outcome |-> "missing", err |-> ERR_PRINCIPAL_MISSING, p |-> NoPrincipal, taken |-> tk]
    ELSE IF p.auth_kind # k
    THEN [outcome |-> "mismatch", err |-> ERR_KIND_MISMATCH, p |-> NoPrincipal, taken |-> tk]
    ELSE [outcome |-> "ok", err |-> "", p |-> p, taken |-> tk]

\* principal_from_request, lines 163-177: the outcome and the flag afterwards
principal_from_request(p, tk, k) ==
    IF p = NoPrincipal
    THEN [outcome |-> "missing", err |-> ERR_PRINCIPAL_MISSING, p |-> NoPrincipal, taken |-> tk]
    ELSE IF p.auth_kind # k
    THEN [outcome |-> "mismatch", err |-> ERR_KIND_MISMATCH, p |-> NoPrincipal, taken |-> tk]
    ELSE [outcome |-> "ok", err |-> "", p |-> p,
          taken |-> IF tk = "absent" THEN tk ELSE "true"]

\* a principal extractor among the handler's arguments (PrincipalOidc::
\* from_request, lines 197-203, for kind Oidc): failure fails the extraction
ExtractPrincipal(r, k) ==
    /\ pc[r] = "extract"
    /\ LET x == principal_from_request(principal[r], taken[r], k) IN
        /\ ext' = [ext EXCEPT ![r] = [outcome |-> x.outcome, kind |-> k, err |-> x.err, p |-> x.p]]
        /\ taken' = [taken EXCEPT ![r] = x.taken]
        /\ IF x.outcome = "ok"
           THEN UNCHANGED <<pc, hres, acc, cont, txns>>
           ELSE ExtractFailed(r, x.err)
    /\ UNCHANGED <<now, session, TXN_LOG, required, cred, principal,
                   authtxn, found, pend, verified, res, mwtxn, fin, out, login>>

\* every argument is extracted: the handler body starts
StartBody(r) ==
    /\ pc[r] = "extract"
    /\ \A a \in Accs : acc[r][a].st # "pending"
    /\ pc' = [pc EXCEPT ![r] = "body"]
    /\ UNCHANGED <<now, session, txns, TXN_LOG, required, cred, cont, acc, principal, taken,
                   authtxn, found, pend, verified, ext, hres, res, mwtxn, fin, out, login>>

\* the get() calls the handler of request r has made so far
RECURSIVE GetsUpTo(_, _)
GetsUpTo(r, n) == IF n = 0 THEN 0 ELSE acc[r][n].gets + GetsUpTo(r, n - 1)

\* the handler calls WriteTxn::get / ReadTxn::get (lines 240-250); a panic
\* unwinds the request: the accessors are dropped, then the container
Get(r, a) ==
    /\ pc[r] = "body"
    /\ acc[r][a].st = "live"
    /\ GetsUpTo(r, MaxAcc) < MaxGets
    /\ IF get_panics(Heap(r), a)
       THEN /\ LET h == drop_all(Heap(r)) IN
                 SetHeap(r, [h EXCEPT !.cont = None, !.txns = DropTxn(h.txns, h.cont)])
            /\ pc' = [pc EXCEPT ![r] = "panicked"]
       ELSE /\ SetHeap(r, get(Heap(r), a))
            /\ UNCHANGED pc
    /\ UNCHANGED <<now, session, TXN_LOG, required, cred, principal, taken,
                   authtxn, found, pend, verified, ext, hres, res, mwtxn, fin, out, login>>

\* the handler lets go of an accessor before it returns
DropAcc(r, a) ==
    /\ pc[r] = "body"
    /\ acc[r][a].st = "live"
    /\ SetHeap(r, drop(Heap(r), a))
    /\ UNCHANGED <<now, session, TXN_LOG, pc, required, cred, principal, taken,
                   authtxn, found, pend, verified, ext, hres, res, mwtxn, fin, out, login>>

\* the handler returns: its arguments are dropped, the service yields result
Return(r, result) ==
    /\ pc[r] = "body"
    /\ SetHeap(r, drop_all(Heap(r)))
    /\ hres' = [hres EXCEPT ![r] = result]
    /\ pc' = [pc EXCEPT ![r] = "auth_post"]
    /\ UNCHANGED <<now, session, TXN_LOG, required, cred, principal, taken,
                   authtxn, found, pend, verified, ext, res, mwtxn, fin, out, login>>

\* ------------------------------------------------ oidc::oidc_callback
\* cfg.server().oidc_admins
oidc_admins == {"a@x.com"}

\* what a callback request can carry and what the identity provider answers:
\* the nonce cookie, whether client.authenticate and the userinfo call succeed,
\* whether the id token is Jws::Decoded, userinfo.email_verified and
\* userinfo.email ("" for None)
LoginInputs ==
    {[route |-> TRUE, nonce |-> n, token |-> t, decoded |-> d, verified |-> v, email |-> m, at |-> 0] :
        n \in {"absent", "undecodable", "ok"}, t \in BOOLEAN, d \in BOOLEAN, v \in BOOLEAN,
        m \in {"", "a@x.com", "b@x.com"}}

\* lines 76-119 without the allow-list test of line 104
oidc_verify_any_email(q) ==
    IF q.nonce = "absent" THEN ERR_AUTH
    ELSE IF q.nonce = "undecodable" THEN ERR_AUTH
    ELSE IF ~q.token THEN ERR_OIDC
    ELSE IF ~q.decoded THEN ERR_NOT_DECODED
    ELSE IF ~q.verified \/ q.email = "" THEN ERR_AUTH
    ELSE ""

\* lines 76-119: the error oidc_callback returns before it builds the
\* session, "" when it builds one
oidc_verify(q) ==
    IF q.nonce = "absent" THEN ERR_AUTH
    ELSE IF q.nonce = "undecodable" THEN ERR_AUTH
    ELSE IF ~q.token THEN ERR_OIDC
    ELSE IF ~q.decoded THEN ERR_NOT_DECODED
    ELSE IF ~q.verified \/ q.email = "" THEN ERR_AUTH
    ELSE IF q.email \notin oidc_admins THEN ERR_AUTH
    ELSE ""

\* Session::new_oidc(expires, email): the row of a new Oidc session
new_oidc(expires, email) ==
    [present |-> TRUE, kind |-> SESSION_KIND_OIDC, expires |-> expires, email |-> email]

\* line 107: the expires argument oidc_callback passes to new_oidc at clock t
login_expires(t) == t

\* TxnMiddleware::call for a request to the callback route: lines 80-90
LoginCall(r, q) ==
    /\ pc[r] = "idle"
    /\ login' = [login EXCEPT ![r] = q]
    /\ cont' = [cont EXCEPT ![r] = None]
    /\ TXN_LOG' = log_txn_state(TXN_LOG, r, "Nonexistent")
    /\ pc' = [pc EXCEPT ![r] = "auth"]
    /\ UNCHANGED <<now, session, txns, required, cred, acc, principal, taken, authtxn, found,
                   pend, verified, ext, hres, res, mwtxn, fin, out>>

\* lines 76-122: the checks; an Err leaves the handler (its arguments are
\* dropped), else the clock is read at line 106
OidcVerify(r) ==
    /\ pc[r] = "body"
    /\ login[r].route
    /\ LET e == oidc_verify(login[r]) IN
       IF e = ""
       THEN /\ login' = [login EXCEPT ![r].at = now]
            /\ pc' = [pc EXCEPT ![r] = "login_insert"]
            /\ UNCHANGED <<acc, cont, txns, hres>>
       ELSE /\ SetHeap(r, drop_all(Heap(r)))
            /\ hres' = [hres EXCEPT ![r] = Resp(error_response(e))]
            /\ pc' = [pc EXCEPT ![r] = "auth_post"]
            /\ UNCHANGED login
    /\ UNCHANGED <<now, session, TXN_LOG, required, cred, principal, taken, authtxn, found,
                   pend, verified, ext, res, mwtxn, fin, out>>

\* lines 124-129: AC::S::insert(txn.get(), &sess).await?, then 302 FOUND
OidcInsert(r, ok) ==
    /\ pc[r] = "login_insert"
    /\ LET h == get(Heap(r), 1)
           t == h.acc[1].local
           row == new_oidc(login_expires(login[r].at), login[r].email)
       IN IF ok
          THEN /\ SetHeap(r, drop_all([h EXCEPT !.txns[t].w = [op |-> "insert", row |-> row]]))
               /\ hres' = [hres EXCEPT ![r] = Resp(302)]
          ELSE /\ SetHeap(r, drop_all(h))
               /\ hres' = [hres EXCEPT ![r] = Resp(error_response(ERR_SQL))]
    /\ pc' = [pc EXCEPT ![r] = "auth_post"]
    /\ UNCHANGED <<now, session, TXN_LOG, required, cred, principal, taken, authtxn, found,
                   pend, verified, ext, res, mwtxn, fin, out, login>>

\* ----------------------------------- AuthMiddleware::call, after downstream
\* lines 142-151 with the consumption check of lines 145-150 left out
auth_result_unchecked(h, tk) == h

\* lines 142-151: `?` on the downstream result, then the consumption check
auth_result(h, tk) ==
    IF h.kind = "err" THEN h
    ELSE IF tk = "false" THEN Err(ERR_NOT_CONSUMED)
    ELSE h

AuthPost(r) ==
    /\ pc[r] = "auth_post"
    /\ res' = [res EXCEPT ![r] = auth_result(hres[r], taken[r])]
    /\ pc' = [pc EXCEPT ![r] = "txn_post"]
    /\ UNCHANGED <<now, session, txns, TXN_LOG, required, cred, cont, acc, principal, taken,
                   authtxn, found, pend, verified, ext, hres, mwtxn, fin, out, login>>

\* ------------------------------------ TxnMiddleware::call, after downstream
\* line 93 with the client-error test forgotten
failed_server_only(status) == is_server_error(status)

\* line 93
failed(status) == is_server_error(status) \/ is_client_error(status)

\* lines 92-106: which terminal operation the downstream result selects
finalize_op(rs) ==
    IF rs.kind = "resp" /\ ~failed(rs.status) THEN "commit" ELSE "rollback"

\* the TxnState logged for a terminal operation, lines 96, 100, 105
terminal_state(op) == IF op = "commit" THEN "Committed" ELSE "RolledBack"

\* TxnPost treating an empty container as a transaction to roll back
TxnPostAlwaysFinalizes(r) ==
    /\ pc[r] = "txn_post"
    /\ IF cont[r] # None
       THEN /\ mwtxn' = [mwtxn EXCEPT ![r] = cont[r]]
            /\ cont' = [cont EXCEPT ![r] = None]
            /\ fin' = [fin EXCEPT ![r] = finalize_op(res[r])]
            /\ TXN_LOG' = log_txn_state(TXN_LOG, r, terminal_state(finalize_op(res[r])))
            /\ pc' = [pc EXCEPT ![r] = "txn_fin"]
            /\ UNCHANGED out
       ELSE /\ out' = [out EXCEPT ![r] = res[r]]
            /\ TXN_LOG' = log_txn_state(TXN_LOG, r, "RolledBack")
            /\ pc' = [pc EXCEPT ![r] = "done"]
            /\ UNCHANGED <<mwtxn, cont, fin>>
    /\ UNCHANGED <<now, session, txns, required, cred, acc, principal, taken,
                   authtxn, found, pend, verified, ext, hres, res, login>>

\* TxnMiddleware wrapped by AuthMiddleware instead of wrapping it: the
\* terminal operation is chosen from the handler's own response
TxnPostInsideAuth(r) ==
    /\ pc[r] = "txn_post"
    /\ IF cont[r] # None
       THEN /\ mwtxn' = [mwtxn EXCEPT ![r] = cont[r]]
            /\ cont' = [cont EXCEPT ![r] = None]
            /\ fin' = [fin EXCEPT ![r] = finalize_op(IF hres[r] = NoRes THEN res[r] ELSE hres[r])]
            /\ TXN_LOG' = log_txn_state(TXN_LOG, r,
                             terminal_state(finalize_op(IF hres[r] = NoRes THEN res[r] ELSE hres[r])))
            /\ pc' = [pc EXCEPT ![r] = "txn_fin"]
            /\ UNCHANGED out
       ELSE /\ out' = [out EXCEPT ![r] = res[r]]
            /\ pc' = [pc EXCEPT ![r] = "done"]
            /\ UNCHANGED <<mwtxn, cont, fin, TXN_LOG>>
    /\ UNCHANGED <<now, session, txns, required, cred, acc, principal, taken,
                   authtxn, found, pend, verified, ext, hres, res, login>>

\* lines 91-106 up to the await, and line 120 when the container is empty
TxnPost(r) ==
    /\ pc[r] = "txn_post"
    /\ IF cont[r] # None
       THEN /\ mwtxn' = [mwtxn EXCEPT ![r] = cont[r]]
            /\ cont' = [cont EXCEPT ![r] = None]
            /\ fin' = [fin EXCEPT ![r] = finalize_op(res[r])]
            /\ TXN_LOG' = log_txn_state(TXN_LOG, r, terminal_state(finalize_op(res[r])))
            /\ pc' = [pc EXCEPT ![r] = "txn_fin"]
            /\ UNCHANGED out
       ELSE /\ out' = [out EXCEPT ![r] = res[r]]
            /\ pc' = [pc EXCEPT ![r] = "done"]
            /\ UNCHANGED <<mwtxn, cont, fin, TXN_LOG>>
    /\ UNCHANGED <<now, session, txns, required, cred, acc, principal, taken,
                   authtxn, found, pend, verified, ext, hres, res, login>>

\* lines 107-120 with the finalize error swallowed
txn_result_keeps_downstream(rs, ok) == rs

\* lines 107-120: the value call returns once commit / rollback is over
txn_result(rs, ok) == IF ok THEN rs ELSE Err(ERR_FINALIZE)

\* lines 97, 101, 106: txn.commit().await / txn.rollback().await, then 107-120
TxnFinalize(r, ok) ==
    /\ pc[r] = "txn_fin"
    /\ txns' = [txns EXCEPT ![mwtxn[r]].st =
                   IF ~ok THEN "failed"
                   ELSE IF fin[r] = "commit" THEN "committed" ELSE "rolledback"]
    /\ session' = IF ok /\ fin[r] = "commit" THEN apply_write(session, txns[mwtxn[r]].w)
                   ELSE session
    /\ mwtxn' = [mwtxn EXCEPT ![r] = None]
    /\ out' = [out EXCEPT ![r] = txn_result(res[r], ok)]
    /\ pc' = [pc EXCEPT ![r] = "done"]
    /\ UNCHANGED <<now, TXN_LOG, required, cred, cont, acc, principal, taken,
                   authtxn, found, pend, verified, ext, hres, res, fin, login>>

\* ------------------------------------------------------- specification
Results == {Resp(s) : s \in Statuses} \cup {Err(ERR_DOWNSTREAM)}

Next ==
    \/ Tick
    \/ \E r \in Served, rq \in BOOLEAN, c \in Creds : TxnCall(r, rq, c)
    \/ \E r \in Served : AuthCall(r)
    \/ \E r \in Served, ok \in BOOLEAN : AuthBegin(r, ok)
    \/ \E r \in Served : AuthFind(r)
    \/ \E r \in Served : AuthUse(r)
    \/ \E r \in Served : AuthExpired(r)
    \/ \E r \in Served, ok \in BOOLEAN : AuthCommit(r, ok)
    \/ \E r \in Served : AuthAttach(r)
    \/ \E r \in Served, fl \in {"w", "r"} : NewAccessor(r, fl)
    \/ \E r \in Served, a \in Accs, ok \in BOOLEAN : AccBegin(r, a, ok)
    \/ \E r \in Served, k \in Kinds : ExtractPrincipal(r, k)
    \/ \E r \in Served : StartBody(r)
    \/ \E r \in Served, a \in Accs : Get(r, a)
    \/ \E r \in Served, a \in Accs : DropAcc(r, a)
    \/ \E r \in Served, result \in Results : Return(r, result)
    \/ \E r \in Served : AuthPost(r)
    \/ \E r \in Served : TxnPost(r)
    \/ \E r \in Served, ok \in BOOLEAN : TxnFinalize(r, ok)

Spec == Init /\ [][Next]_vars

\* two requests through AuthMiddleware to a handler without transaction
\* arguments that answers 200: the session table under repeated accesses
NextSessions ==
    \/ Tick
    \/ \E r \in Reqs, rq \in BOOLEAN, c \in Creds : TxnCall(r, rq, c)
    \/ \E r \in Reqs : AuthCall(r)
    \/ \E r \in Reqs, ok \in BOOLEAN : AuthBegin(r, ok)
    \/ \E r \in Reqs : AuthFind(r)
    \/ \E r \in Reqs : AuthUse(r)
    \/ \E r \in Reqs : AuthExpired(r)
    \/ \E r \in Reqs, ok \in BOOLEAN : AuthCommit(r, ok)
    \/ \E r \in Reqs : AuthAttach(r)
    \/ \E r \in Reqs, k \in Kinds : ExtractPrincipal(r, k)
    \/ \E r \in Reqs : StartBody(r)
    \/ \E r \in Reqs : Return(r, Resp(200))
    \/ \E r \in Reqs : AuthPost(r)
    \/ \E r \in Reqs : TxnPost(r)

SpecSessions == Init /\ [][NextSessions]_vars

\* two requests, interleaved at every await, each to a handler with at most
\* one transaction accessor that it uses at most once; no begin, commit or
\* rollback fails and the clock stands still
NextPair ==
    \/ \E r \in Reqs, c \in {NoCred, SessionCode} : TxnCall(r, FALSE, c)
    \/ \E r \in Reqs : AuthCall(r)
    \/ \E r \in Reqs : AuthBegin(r, TRUE)
    \/ \E r \in Reqs : AuthFind(r)
    \/ \E r \in Reqs : AuthUse(r)
    \/ \E r \in Reqs : AuthCommit(r, TRUE)
    \/ \E r \in Reqs : AuthAttach(r)
    \/ \E r \in Reqs, fl \in {"w", "r"} : acc[r][1].st = "absent" /\ NewAccessor(r, fl)
    \/ \E r \in Reqs : AccBegin(r, 1, TRUE)
    \/ \E r \in Reqs, k \in Kinds : ExtractPrincipal(r, k)
    \/ \E r \in Reqs : StartBody(r)
    \/ \E r \in Reqs : acc[r][1].gets = 0 /\ Get(r, 1)
    \/ \E r \in Reqs, result \in {Resp(200), Resp(500)} : Return(r, result)
    \/ \E r \in Reqs : AuthPost(r)
    \/ \E r \in Reqs : TxnPost(r)
    \/ \E r \in Reqs : TxnFinalize(r, TRUE)

SpecPair == Init /\ [][NextPair]_vars

\* request 1 is the identity provider's redirect to the callback route
\* (handler oidc_callback, one WriteTxn argument); request 2 carries a
\* credential to a handler without transaction arguments that answers 200
NextLogin ==
    \/ Tick
    \/ \E q \in LoginInputs : LoginCall(1, q)
    \/ \E rq \in BOOLEAN, c \in Creds : TxnCall(2, rq, c)
    \/ \E r \in Reqs : AuthCall(r)
    \/ \E r \in Reqs, ok \in BOOLEAN : AuthBegin(r, ok)
    \/ \E r \in Reqs : AuthFind(r)
    \/ \E r \in Reqs : AuthUse(r)
    \/ \E r \in Reqs : AuthExpired(r)
    \/ \E r \in Reqs, ok \in BOOLEAN : AuthCommit(r, ok)
    \/ \E r \in Reqs : AuthAttach(r)
    \/ \E r \in Reqs : login[r].route /\ acc[r][1].st = "absent" /\ NewAccessor(r, "w")
    \/ \E r \in Reqs, ok \in BOOLEAN : AccBegin(r, 1, ok)
    \/ \E r \in Reqs, k \in Kinds : ~login[r].route /\ ExtractPrincipal(r, k)
    \/ \E r \in Reqs : (login[r].route => acc[r][1].st = "live") /\ StartBody(r)
    \/ \E r \in Reqs : OidcVerify(r)
    \/ \E r \in Reqs, ok \in BOOLEAN : OidcInsert(r, ok)
    \/ \E r \in Reqs : ~login[r].route /\ Return(r, Resp(200))
    \/ \E r \in Reqs : AuthPost(r)
    \/ \E r \in Reqs : TxnPost(r)
    \/ \E r \in Reqs, ok \in BOOLEAN : TxnFinalize(r, ok)

SpecLogin == InitLogin /\ [][NextLogin]_vars

\* pool.begin() on the writer pool (db.rs line 29) while its one connection is
\* checked out: the pool's acquire time-out ends the wait with an error,
\* which put returns at line 193
AccBeginTimedOut(r, a) ==
    /\ acc[r][a].flavor = "w"
    /\ ~WriterFree
    /\ AccBegin(r, a, FALSE)

\* the steps of request r to a handler whose arguments are transaction
\* accessors only; a begin of an accessor fails only by the time-out above
StepWait(r) ==
    \/ \E rq \in BOOLEAN, c \in Creds : TxnCall(r, rq, c)
    \/ AuthCall(r)
    \/ \E ok \in BOOLEAN : AuthBegin(r, ok)
    \/ AuthFind(r)
    \/ AuthUse(r)
    \/ AuthExpired(r)
    \/ \E ok \in BOOLEAN : AuthCommit(r, ok)
    \/ AuthAttach(r)
    \/ \E fl \in {"w", "r"} : NewAccessor(r, fl)
    \/ \E a \in Accs : AccBegin(r, a, TRUE)
    \/ \E a \in Accs : AccBeginTimedOut(r, a)
    \/ StartBody(r)
    \/ \E a \in Accs : Get(r, a)
    \/ \E a \in Accs : DropAcc(r, a)
    \/ \E result \in Results : Return(r, result)
    \/ AuthPost(r)
    \/ TxnPost(r)
    \/ \E ok \in BOOLEAN : TxnFinalize(r, ok)

NextWait == Tick \/ \E r \in Served : StepWait(r)

\* the runtime polls every request's task that can make a step
SpecWait == Init /\ [][NextWait]_vars /\ \A r \in Served : WF_vars(StepWait(r))


\* ============================================================== claims
Terminal == {"Committed", "RolledBack"}

CountIn(seq, S) == Cardinality({i \in DOMAIN seq : seq[i] \in S})

EndsWith(seq, a, b) == Len(seq) >= 2 /\ seq[Len(seq) - 1] = a /\ seq[Len(seq)] = b

\* the transactions the accessors of request r began
AccTxns(r) == {t \in 1..Len(txns) : txns[t].req = r /\ txns[t].origin = "acc"}

\* TxnMiddleware took a transaction out of the container of request r
TookTxn(r) == pc[r] \in {"txn_fin", "done"} /\ fin[r] # "none"

\* C1 (as claimed): when a transaction is in the Handle Store as the downstream
\* stage returns, a response with status < 400 is committed (log ends Started,
\* Committed) and a response with any status >= 400, or an error, is rolled
\* back (log ends Started, RolledBack).
C1_AnyStatusFrom400RollsBack ==
    \A r \in Reqs : TookTxn(r) =>
        /\ (res[r].kind = "resp" /\ res[r].status < 400) =>
              (fin[r] = "commit" /\ EndsWith(ReqLog(r), "Started", "Committed"))
        /\ (res[r].kind = "err" \/ (res[r].kind = "resp" /\ res[r].status >= 400)) =>
              (fin[r] = "rollback" /\ EndsWith(ReqLog(r), "Started", "RolledBack"))

\* C1 (amended): when a transaction is in the Handle Store as the downstream
\* stage returns, a response whose status is no client or server error
\* (status < 400 or status >= 600) is committed (log ends Started, Committed);
\* a response with a status in 400..599, or an error, is rolled back (log
\* ends Started, RolledBack).
C1_CommitUnlessClientOrServerError ==
    \A r \in Reqs : TookTxn(r) =>
        /\ (res[r].kind = "resp" /\ (res[r].status < 400 \/ res[r].status >= 600)) =>
              (fin[r] = "commit" /\ EndsWith(ReqLog(r), "Started", "Committed"))
        /\ (res[r].kind = "err"
              \/ (res[r].kind = "resp" /\ res[r].status >= 400 /\ res[r].status < 600)) =>
              (fin[r] = "rollback" /\ EndsWith(ReqLog(r), "Started", "RolledBack"))

\* C1 witness: a request that answered 600 with a transaction in the store is over
C1_Witness ==
    \E r \in Reqs : pc[r] = "done" /\ fin[r] = "commit" /\ res[r] = Resp(600)
                    /\ EndsWith(ReqLog(r), "Started", "Committed")

\* C2: a request during which no accessor begins a transaction records the
\* TxnState Nonexistent only, has nothing committed or rolled back by the
\* TxnMiddleware, and returns the downstream result unchanged.
C2_NoTransactionNoFinalize ==
    \A r \in Reqs : (pc[r] # "idle" /\ AccTxns(r) = {}) =>
        /\ ReqLog(r) = <<"Nonexistent">>
        /\ fin[r] = "none"
        /\ mwtxn[r] = None
        /\ pc[r] = "done" => (out[r] = res[r] /\ res[r] # NoRes)

\* C2 witness: a handler that ran without any transaction and answered 200
C2_Witness ==
    \E r \in Reqs : pc[r] = "done" /\ AccTxns(r) = {} /\ out[r] = Resp(200)

C4_AtMostOneStarted ==
    \A r \in Reqs : /\ Cardinality(AccTxns(r)) <= 1
                    /\ CountIn(ReqLog(r), {"Started"}) <= 1

\* the places that hold handle t: the container, the accessors' local slots,
\* TxnMiddleware's local txn
Owners(r, t) ==
    (IF cont[r] = t THEN 1 ELSE 0) + (IF mwtxn[r] = t THEN 1 ELSE 0)
    + Cardinality({a \in Accs : acc[r][a].local = t})

\* C5: every open transaction of the accessors has exactly one owner; a
\* handle is never in the container and in an accessor, nor in two
\* accessors; and while the handler runs the container is empty exactly when
\* no transaction was started or an accessor holds the handle locally.
C5_SingleOwner ==
    \A r \in Reqs :
        /\ \A t \in AccTxns(r) : Owners(r, t) = (IF txns[t].st = "open" THEN 1 ELSE 0)
        /\ \A a \in Accs : acc[r][a].local # None =>
              /\ cont[r] # acc[r][a].local
              /\ \A b \in Accs \ {a} : acc[r][b].local # acc[r][a].local
        /\ pc[r] \in {"extract", "body"} =>
              (cont[r] = None <=> (AccTxns(r) = {} \/ \E a \in Accs : acc[r][a].local # None))

\* C5 witness: the handler runs, one accessor holds the handle, the container is empty
C5_Witness ==
    \E r \in Reqs : /\ pc[r] = "body"
                    /\ cont[r] = None
                    /\ \E a \in Accs : acc[r][a].local # None /\ txns[acc[r][a].local].st = "open"

\* C6 (as claimed): when an accessor is dropped, the transaction that was
\* registered for it is in the container afterwards.
C6_DropLeavesRegisteredInStore ==
    [][\A r \in Reqs, a \in Accs :
          (acc[r][a].st = "live" /\ acc'[r][a].st = "dropped" /\ pc'[r] # "panicked")
              => cont'[r] = acc[r][a].reg]_vars

\* C7 (as claimed): get() always returns a live transaction and never aborts
\* because the container is empty: no request ends in a panic of get().
C7_GetNeverAborts ==
    \A r \in Reqs : pc[r] # "panicked"

C9_LaterGetsUseLocal ==
    /\ [](\A r \in Reqs, a \in Accs :
            (acc[r][a].st = "live" /\ acc[r][a].gets >= 1) =>
                (acc[r][a].local # None /\ cont[r] = None))
    /\ [][\A r \in Reqs, a \in Accs :
            (acc[r][a].gets >= 1 /\ acc'[r][a].gets = acc[r][a].gets + 1) =>
                /\ acc'[r][a].local = acc[r][a].local
                /\ acc[r][a].local # None
                /\ cont'[r] = cont[r]
                /\ cont[r] = None
                /\ txns' = txns]_vars

\* C9 witness: an accessor was got twice and still holds the handle
C9_Witness ==
    \E r \in Reqs, a \in Accs :
        acc[r][a].st = "live" /\ acc[r][a].gets = 2 /\ acc[r][a].local # None

\* the request has left AuthMiddleware's lines 130-141
PastAttach(r) == pc[r] \in {"extract", "body", "auth_post", "txn_post", "txn_fin", "done", "panicked"}

\* C10: on a route that requires authentication, a request without a
\* credential fails with AuthError1(request.not.authenticated) before the
\* downstream service is called: no handler argument is extracted, no handler
\* transaction is begun, no principal and no PrincipalTaken is attached.
C10_RejectedBeforeDownstream ==
    \A r \in Reqs : (PastAttach(r) /\ required[r] /\ cred[r] = NoCred) =>
        /\ pc[r] \in {"txn_post", "done"}
        /\ res[r] = Err(ERR_NOT_AUTHENTICATED)
        /\ hres[r] = NoRes
        /\ \A a \in Accs : acc[r][a] = NoAcc
        /\ AccTxns(r) = {}
        /\ ext[r] = NoExt
        /\ principal[r] = NoPrincipal
        /\ taken[r] = "absent"
        /\ pc[r] = "done" => out[r] = Err(ERR_NOT_AUTHENTICATED)

\* C10 witness: such a request is over
C10_Witness ==
    \E r \in Reqs : pc[r] = "done" /\ required[r] /\ cred[r] = NoCred

\* C11: when a principal is attached and the downstream service returns a
\* response while PrincipalTaken is still false, AuthMiddleware returns the
\* not-consumed error in place of that response, whatever its status, and the
\* request ends with that error unless finalizing fails.
C11_UnconsumedPrincipalFailsRequest ==
    \A r \in Reqs :
        (pc[r] \in {"txn_post", "txn_fin", "done"} /\ hres[r].kind = "resp"
            /\ principal[r] # NoPrincipal /\ taken[r] = "false") =>
        /\ res[r] = Err(ERR_NOT_CONSUMED)
        /\ pc[r] = "done" => out[r] \in {Err(ERR_NOT_CONSUMED), Err(ERR_FINALIZE)}

\* C11 witness: the handler answered 200 without extracting the principal
C11_Witness ==
    \E r \in Reqs :
        /\ pc[r] = "done" /\ hres[r] = Resp(200)
        /\ principal[r] # NoPrincipal /\ taken[r] = "false"
        /\ out[r] = Err(ERR_NOT_CONSUMED)

\* a principal extractor has just run for request r
Extracted(r) == pc[r] = "extract" /\ ext'[r] # ext[r]

\* C12: an extraction that expects another kind than the attached
\* principal's fails with AuthError1(principal.kind.mismatch) and leaves
\* PrincipalTaken as it was; an extraction on a request without a principal
\* fails with AuthError1(principal.missing) and changes neither the principal
\* nor the flag.  Both answer 401 without running the handler body.
C12_FailedExtractionKeepsFlag ==
    [][\A r \in Reqs : Extracted(r) =>
          /\ (principal[r] = NoPrincipal) =>
                /\ ext'[r].outcome = "missing" /\ ext'[r].err = ERR_PRINCIPAL_MISSING
                /\ taken'[r] = taken[r] /\ principal'[r] = principal[r]
                /\ hres'[r] = Resp(401) /\ pc'[r] = "auth_post"
          /\ (principal[r] # NoPrincipal /\ principal[r].auth_kind # ext'[r].kind) =>
                /\ ext'[r].outcome = "mismatch" /\ ext'[r].err = ERR_KIND_MISMATCH
                /\ taken'[r] = taken[r] /\ principal'[r] = principal[r]
                /\ hres'[r] = Resp(401) /\ pc'[r] = "auth_post"]_vars

\* C12 witness: a mismatched extraction has failed and the flag is still false
C12_Witness ==
    \E r \in Reqs :
        /\ ext[r].outcome = "mismatch" /\ principal[r] # NoPrincipal
        /\ principal[r].auth_kind # ext[r].kind /\ taken[r] = "false"

\* C13: PrincipalTaken is attached as false together with the principal,
\* becomes true exactly in a successful extraction (one that expects the
\* attached principal's kind), and never goes back to false; the successful
\* extraction returns the attached principal, which no step modifies.
C13_FlagSetOnlyBySuccessfulExtraction ==
    [][\A r \in Reqs :
          /\ (taken[r] = "absent" /\ taken'[r] # "absent") =>
                (taken'[r] = "false" /\ principal[r] = NoPrincipal /\ principal'[r] # NoPrincipal)
          /\ (principal[r] = NoPrincipal /\ principal'[r] # NoPrincipal) => taken'[r] = "false"
          /\ (taken[r] = "false" /\ taken'[r] # "false") =>
                /\ taken'[r] = "true" /\ Extracted(r)
                /\ ext'[r].outcome = "ok" /\ ext'[r].kind = principal[r].auth_kind
          /\ (Extracted(r) /\ principal[r] # NoPrincipal /\ ext'[r].kind = principal[r].auth_kind) =>
                /\ ext'[r].outcome = "ok" /\ taken'[r] = "true"
                /\ ext'[r].p = principal[r]
          /\ taken[r] = "true" => taken'[r] = "true"
          /\ principal[r] # NoPrincipal => principal'[r] = principal[r]]_vars

\* C13 witness: the handler extracted the attached principal
C13_Witness ==
    \E r \in Reqs :
        /\ taken[r] = "true" /\ ext[r].outcome = "ok"
        /\ principal[r] # NoPrincipal /\ ext[r].p = principal[r]

\* the clock value use_session was given when it chose to extend (line 112)
ClockRead(r) == pend[r].expires - lifetime(found[r].kind)

\* C14: a session whose expires is at or before the clock read by use_session
\* (equality included) is never extended: only expires strictly after now
\* makes the session valid.
C14_ExpiryAtNowIsExpired ==
    \A r \in Reqs : pend[r].op = "extend" => found[r].expires > ClockRead(r)

\* C15: once a request has ended because its authentication found the session
\* expired, the session is absent from the stored table (the deletion is
\* durable).
C15_ExpiredSessionIsDeleted ==
    \A r \in Reqs : (pc[r] = "done" /\ out[r] = Err(ERR_EXPIRED)) => ~session.present

\* the transactions verify_auth began for request r
AuthTxns(r) == {t \in 1..Len(txns) : txns[t].req = r /\ txns[t].origin = "auth"}

\* C16: for a session found valid, use_session writes expires = now +
\* lifetime(kind) and verify_auth commits it before the principal is attached
\* with PrincipalTaken = false and before the downstream service is called.
C16_ExtendedAndCommittedBeforeAttach ==
    /\ [](\A r \in Reqs : principal[r] # NoPrincipal =>
            /\ authtxn[r] = None
            /\ \E t \in AuthTxns(r) : txns[t].st = "committed"
            /\ session.present
            /\ session.expires = now + lifetime(session.kind))
    /\ [][\A r \in Reqs :
            /\ (pc[r] = "auth_use" /\ pc'[r] = "auth_commit") =>
                  pend'[r] = [op |-> "extend", expires |-> now + lifetime(found[r].kind)]
            /\ (pc[r] = "auth_commit" /\ verified'[r].kind = "some") =>
                  /\ session' = [session EXCEPT !.expires = pend[r].expires]
                  /\ txns'[authtxn[r]].st = "committed"
                  /\ principal'[r] = NoPrincipal /\ taken'[r] = "absent"
                  /\ pc'[r] = "auth_attach"
            /\ (principal[r] = NoPrincipal /\ principal'[r] # NoPrincipal) =>
                  /\ taken'[r] = "false"
                  /\ session' = session
                  /\ hres[r] = NoRes /\ ext[r] = NoExt /\ AccTxns(r) = {}
                  /\ pc'[r] = "extract"]_vars

\* C16 witness: the principal is attached, not yet taken, downstream is about
\* to run, and the stored expiry is the extended one
C16_Witness ==
    \E r \in Reqs :
        /\ pc[r] = "extract" /\ principal[r] # NoPrincipal /\ taken[r] = "false"
        /\ session.expires = now + lifetime(session.kind)
        /\ session.expires > ClockStart + 1

\* a successful access of request r commits in this step
Accessed(r) == pc[r] = "auth_commit" /\ verified'[r].kind = "some"

C18_OptionalAuthReachesHandler ==
    \A r \in Reqs :
        (pc[r] = "done" /\ ~required[r]
            /\ (cred[r] = NoCred \/ res[r] \in {Err(ERR_AUTH), Err(ERR_EXPIRED)})) =>
        /\ hres[r] # NoRes
        /\ principal[r] = NoPrincipal /\ taken[r] = "absent"

\* C19: within one request the authentication transaction is over, committed,
\* before a handler transaction is begun (it is begun earlier and no longer
\* held by verify_auth), so the two are never open at the same time.
C19_AuthTxnOverBeforeHandlerTxn ==
    \A r \in Reqs : \A t \in AuthTxns(r), u \in AccTxns(r) :
        /\ t < u
        /\ txns[t].st = "committed"
        /\ authtxn[r] = None
        /\ ~(txns[t].st = "open" /\ txns[u].st = "open")

\* C19 witness: the handler's transaction is open after an authentication
\* transaction of the same request
C19_Witness ==
    \E r \in Reqs : \E t \in AuthTxns(r), u \in AccTxns(r) :
        txns[u].st = "open" /\ pc[r] = "body"

\* the commit / rollback TxnMiddleware ran for request r failed
FinalizeFailed(r) == \E t \in AccTxns(r) : txns[t].st = "failed"

\* C20: TxnMiddleware returns exactly what the downstream service returned
\* when the container held no transaction or the commit / rollback succeeded;
\* when the commit / rollback fails it returns the finalize error instead and
\* the downstream result, error or success, is discarded.
C20_ReturnsDownstreamUnlessFinalizeFails ==
    \A r \in Reqs : pc[r] = "done" =>
        /\ fin[r] = "none" => (out[r] = res[r] /\ ~FinalizeFailed(r))
        /\ (fin[r] # "none" /\ ~FinalizeFailed(r)) => out[r] = res[r]
        /\ FinalizeFailed(r) => (out[r] = Err(ERR_FINALIZE) /\ out[r] # res[r])

\* C20 witness: the handler answered 200 and the commit failed
C20_Witness ==
    \E r \in Reqs :
        /\ pc[r] = "done" /\ res[r] = Resp(200) /\ fin[r] = "commit"
        /\ FinalizeFailed(r) /\ out[r] = Err(ERR_FINALIZE)

\* C21: when beginning the transaction fails, the extraction fails with that
\* error (a 500 answer) and the handler body does not run; no handle is in
\* the store, Started is not recorded, and TxnMiddleware neither commits nor
\* rolls back.
C21_FailedBeginLeavesNoTransaction ==
    \A r \in Reqs : (\E a \in Accs : acc[r][a].st = "failed") =>
        /\ pc[r] \in {"auth_post", "txn_post", "txn_fin", "done"}
        /\ hres[r] = Resp(500)
        /\ cont[r] = None
        /\ CountIn(ReqLog(r), {"Started"}) = 0
        /\ fin[r] = "none"
        /\ CountIn(ReqLog(r), Terminal) = 0

\* C22 as stated: every transaction the core begins, by either accessor
\* flavor or in AuthMiddleware, is a write transaction from the writer pool.
C22_EveryTransactionFromWriterPool ==
    \A t \in 1..Len(txns) : txns[t].pool = "w"

\* C22: verify_auth and the WriteTxn accessor begin their transaction on the
\* writer pool (newtx_write); the ReadTxn accessor begins its transaction on
\* the readers pool (newtx_read).  Both flavors register it in the same store.
C22_PoolFollowsAccessorFlavor ==
    /\ \A t \in 1..Len(txns) : txns[t].origin = "auth" => txns[t].pool = "w"
    /\ \A r \in Reqs, a \in Accs : acc[r][a].reg # None =>
            /\ txns[acc[r][a].reg].origin = "acc"
            /\ txns[acc[r][a].reg].pool = acc[r][a].flavor
            /\ acc[r][a].flavor \in {"w", "r"}

\* C22 witness: one request has begun a transaction in verify_auth, one by a
\* ReadTxn accessor and one by a WriteTxn accessor
C22_Witness ==
    \E r \in Reqs : \E a, b \in Accs :
        /\ AuthTxns(r) # {}
        /\ acc[r][a].reg # None /\ acc[r][a].flavor = "r" /\ txns[acc[r][a].reg].pool = "r"
        /\ acc[r][b].reg # None /\ acc[r][b].flavor = "w" /\ txns[acc[r][b].reg].pool = "w"

\* the error variant behind an error: ApiError's variant, or anyhow for an
\* error that is no ApiError (errors.rs 19-62, the downcast of line 133)
error_variant(e) ==
    IF e \in {ERR_NOT_AUTHENTICATED, ERR_PRINCIPAL_MISSING, ERR_KIND_MISMATCH} THEN "AuthError1"
    ELSE IF e = ERR_EXPIRED THEN "Expired"
    ELSE IF e = ERR_AUTH THEN "AuthError"
    ELSE "anyhow"

\* what an unauthenticated caller is told: lines 99 and 140 of authmw.rs
UnauthenticatedErrors == {ERR_NOT_AUTHENTICATED, ERR_EXPIRED}

\* e differs from every unauthenticated-caller error in variant and in status
DistinctClass(e) ==
    \A u \in UnauthenticatedErrors :
        error_variant(e) # error_variant(u) /\ error_response(e) # error_response(u)

\* C24: the failure of a kind-mismatched extraction and the failure of the
\* consumption check are each of another error variant and another response
\* status than the failures an unauthenticated caller gets
\* (request.not.authenticated, Expired).
C24_DistinctErrorClasses ==
    \A r \in Reqs :
        /\ ext[r].outcome = "mismatch" =>
              (DistinctClass(ext[r].err) /\ hres[r].status # error_response(ERR_NOT_AUTHENTICATED))
        /\ res[r] = Err(ERR_NOT_CONSUMED) => DistinctClass(res[r].err)

\* C29: TxnMiddleware wraps AuthMiddleware, so when the consumption check
\* fails the transaction of the request is rolled back and never committed,
\* whatever status the handler's response had (200 included).
C29_UnconsumedPrincipalRollsBack ==
    \A r \in Reqs : (res[r] = Err(ERR_NOT_CONSUMED) /\ pc[r] \in {"txn_fin", "done"}) =>
        /\ fin[r] # "commit"
        /\ CountIn(ReqLog(r), {"Committed"}) = 0
        /\ \A t \in AccTxns(r) : txns[t].st # "committed"
        /\ (fin[r] = "rollback" /\ pc[r] = "done") =>
              \E t \in AccTxns(r) : txns[t].st \in {"rolledback", "failed"}

\* C29 witness: the handler answered 200 with a transaction, did not extract
\* the principal, and the transaction was rolled back
C29_Witness ==
    \E r \in Reqs :
        /\ pc[r] = "done" /\ hres[r] = Resp(200) /\ res[r] = Err(ERR_NOT_CONSUMED)
        /\ fin[r] = "rollback"
        /\ \E t \in AccTxns(r) : txns[t].st = "rolledback"

\* C30: every transaction an accessor placed in the store during a request
\* has, when the request is over, been taken by TxnMiddleware and explicitly
\* committed or rolled back by it; none was discarded by being overwritten in
\* the store.
C30_EveryRegisteredTransactionFinalized ==
    \A r \in Reqs : pc[r] = "done" =>
        \A t \in AccTxns(r) : txns[t].st \in {"committed", "rolledback", "failed"}

\* C26: the Expired-or-valid decision of an authentication is made on the
\* expiry stored for the session, read inside the transaction that then
\* extends or deletes it: from its lookup to its commit or drop the request
\* holds the open transaction and the row it found is the stored row, and
\* under any interleaving of requests with the same credential a request
\* turns to Expired only when the stored expiry is before the clock it read.
C26_DecisionOnStoredExpiry ==
    /\ [](\A r \in Reqs : pc[r] \in {"auth_use", "auth_expired", "auth_commit"} =>
            /\ authtxn[r] # None /\ txns[authtxn[r]].st = "open"
            /\ found[r] = session)
    /\ [][\A r \in Reqs :
            /\ (pc[r] = "auth_find" /\ pc'[r] = "auth_use") => found'[r] = session
            /\ (pc[r] = "auth_use" /\ pc'[r] = "auth_expired") => ~(session.expires > now)
            /\ (pc[r] = "auth_use" /\ session.expires > now) => pc'[r] \in {"auth_use", "auth_commit"}]_vars

\* C26 witness: a request found valid on the expiry an earlier request with
\* the same credential had stored, at a clock past the original expiry
C26_Witness ==
    \E r1, r2 \in Reqs :
        /\ r1 # r2 /\ principal[r1] # NoPrincipal /\ cred[r1] = cred[r2]
        /\ pc[r2] = "auth_commit"
        /\ now > ClockStart + 1 /\ found[r2].expires > now

\* the transaction handles request r holds: in its container, in its
\* accessors, and in TxnMiddleware's hands
Held(r) ==
    ({cont[r], mwtxn[r], authtxn[r]}
        \cup {acc[r][a].local : a \in Accs} \cup {acc[r][a].reg : a \in Accs}) \ {None}

\* C23: with requests interleaved at every await, each request uses only
\* its own container, principal and PrincipalTaken: every handle it holds is
\* a transaction it began itself, its principal comes from its own
\* credential, its flag exists only with its principal, the result of
\* its consumption check is a function of its own response and flag, and its
\* commit or rollback is a function of that result.
C23_RequestsAreIsolated ==
    \A r \in Reqs :
        /\ \A t \in Held(r) : txns[t].req = r
        /\ principal[r] # NoPrincipal => (cred[r] = SessionCode /\ principal[r] = as_principal(session))
        /\ taken[r] # "absent" <=> principal[r] # NoPrincipal
        /\ ext[r].outcome = "ok" => (ext[r].p = principal[r] /\ taken[r] = "true")
        /\ (pc[r] \in {"txn_post", "txn_fin", "done"} /\ hres[r] # NoRes) =>
              res[r] = auth_result(hres[r], taken[r])
        /\ (pc[r] \in {"txn_fin", "done"} /\ fin[r] # "none") =>
              /\ fin[r] = finalize_op(res[r])
              /\ \A t \in AccTxns(r) : txns[t].st \in {"open", "committed", "rolledback"}
              /\ \A t \in AccTxns(r) : txns[t].st = "committed" => fin[r] = "commit"
              /\ \A t \in AccTxns(r) : txns[t].st = "rolledback" => fin[r] = "rollback"
        /\ (pc[r] = "done" /\ fin[r] = "none") => AccTxns(r) = {}

\* C23 witness: two requests that entered together and both held a
\* transaction have ended, one committed and one rolled back
C23_Witness ==
    \E r1, r2 \in Reqs :
        /\ r1 # r2 /\ pc[r1] = "done" /\ pc[r2] = "done"
        /\ Len(TXN_LOG) >= 2 /\ TXN_LOG[1].req # TXN_LOG[2].req
        /\ fin[r1] = "commit" /\ fin[r2] = "rollback"
        /\ \E t \in AccTxns(r1) : txns[t].st = "committed"
        /\ \E t \in AccTxns(r2) : txns[t].st = "rolledback"

\* the write transactions open now
OpenWriters == {t \in 1..Len(txns) : txns[t].pool = "w" /\ txns[t].st = "open"}

\* C25: at most one write transaction is open at any instant across all
\* requests, verify_auth's and the handlers' together; a write transaction is
\* begun only in a state where none is open, so a request asking for one
\* meanwhile waits.
C25_SingleOpenWriter ==
    /\ Cardinality(OpenWriters) <= 1
    /\ \A t \in OpenWriters : ~\E u \in 1..Len(txns) : u > t /\ txns[u].pool = "w"

\* C25 witness: a request is at its newtx_write() while another request's
\* write transaction is open
C25_Witness ==
    \E r1, r2 \in Reqs :
        /\ r1 # r2 /\ pc[r2] = "auth_begin"
        /\ \E t \in OpenWriters : txns[t].req = r1

\* the insert of request r's oidc_callback was committed
Persisted(r) ==
    \E t \in AccTxns(r) : txns[t].st = "committed" /\ txns[t].w.op = "insert"

\* C27: the session the login callback creates has an expiry strictly later
\* than the login instant, and a request authenticating with it at an
\* instant within lifetime(kind) of the login is not reported Expired.
C27_LoginExpiryInFuture ==
    \A r \in Reqs : login[r].route =>
        /\ \A t \in AccTxns(r) :
              txns[t].w.op = "insert" => txns[t].w.row.expires > login[r].at
        /\ \A r2 \in Reqs :
              (Persisted(r) /\ pc[r2] = "auth_expired" /\ found[r2].expires = login_expires(login[r].at))
                  => now > login[r].at + lifetime(SESSION_KIND_OIDC)

\* the nonce cookie is present and decodable, the identity provider reports
\* a verified, present email, and the email is on the admin allow-list
GoodLogin(q) ==
    q.nonce = "ok" /\ q.verified /\ q.email # "" /\ q.email \in oidc_admins

\* the caller got an error
IsError(rs) == rs.kind = "err" \/ (rs.kind = "resp" /\ failed(rs.status))

\* C28: the login callback issues its insert, and the insert is committed,
\* only when the nonce cookie is present and decodable, the identity provider
\* reports a verified, present email and the email is on the allow-list; a
\* finished callback request either persisted the session and answered 302,
\* or returned an error and left no session row.
C28_SessionOnlyForVerifiedAdmin ==
    /\ \A r \in Reqs : \A t \in AccTxns(r) :
            txns[t].w.op = "insert" =>
                /\ login[r].route /\ GoodLogin(login[r])
                /\ txns[t].w.row.email = login[r].email
    /\ session.present => \E r \in Reqs : Persisted(r) /\ session.email = login[r].email
    /\ \A r \in Reqs : (login[r].route /\ pc[r] = "done") =>
            \/ Persisted(r) /\ GoodLogin(login[r]) /\ out[r] = Resp(302) /\ session.present
            \/ ~Persisted(r) /\ IsError(out[r]) /\ ~session.present

\* C28 witness: a callback request of an allow-listed, verified email is
\* over and its session is stored
C28_Witness ==
    \E r \in Reqs :
        /\ login[r].route /\ pc[r] = "done" /\ Persisted(r)
        /\ session.present /\ session.email \in oidc_admins

\* C32: when the TxnState sequence recorded for a request that is over ends
\* in Committed, the commit of the transaction TxnMiddleware took for that
\* request succeeded: one of the request's transactions is committed and
\* none is left with a failed commit.
C32_CommittedOnlyAfterCommit ==
    \A r \in Reqs :
        LET log == ReqLog(r)
        IN  (pc[r] = "done" /\ log # <<>> /\ log[Len(log)] = "Committed") =>
                /\ \E t \in AccTxns(r) : txns[t].st = "committed"
                /\ \A t \in AccTxns(r) : txns[t].st # "failed"

\* C31: under fair scheduling every request that was started completes, and
\* a request that waits for the writer obtains it: every write accessor
\* whose transaction is still to begin eventually has its transaction begun
\* and registered.
C31_WaitingRequestObtainsWriter ==
    /\ \A r \in Reqs : (pc[r] # "idle") ~> (pc[r] \in {"done", "panicked"})
    /\ \A r \in Reqs, a \in Accs :
          (acc[r][a].st = "pending" /\ acc[r][a].flavor = "w") ~> (acc[r][a].reg # None)
====
